---------------------------- MODULE Spec2Model ----------------------------
(***************************************************************************)
(* A model of the NMEA -> GPX converter of src/converter.js (the second,   *)
(* altitude-aware copy of the code, lines 380-720, whose function          *)
(* declarations are the ones in effect).                                   *)
(*                                                                         *)
(* Representation of JavaScript values:                                    *)
(*   - a string is a TLA+ string; a character is a string of length 1;     *)
(*   - a number is Num(v), NaN, and the absent values are Null/Undefined;  *)
(*     the numbers that parseFloat produces are fixed-point, v counting     *)
(*     units of 1/Scale (exact for inputs of at most four fraction         *)
(*     digits, which is NMEA's precision);                                 *)
(*   - a coordinate in decimal degrees is a number counting units of       *)
(*     1/(60*Scale) degree, so that degrees + minutes/60 is exact;         *)
(*   - a Date is Instant(d, s): day number d since 1970-01-01 and second   *)
(*     s of that day (its time value is (d*86400 + s)*1000 ms; the code    *)
(*     only ever builds whole seconds), or NaN for an Invalid Date.        *)
(***************************************************************************)
EXTENDS Integers, Sequences, FiniteSets, TLC

Scale == 10^4

Num(v) == [num |-> v]
NaN == [nan |-> TRUE]
Null == [null |-> TRUE]
Undefined == [undefined |-> TRUE]
IsNum(x) == "num" \in DOMAIN x
IsNaN(x) == x = NaN

Min(a, b) == IF a < b THEN a ELSE b
Abs(a) == IF a < 0 THEN -a ELSE a

(***************************************************************************)
(* String.prototype.substring(start [, end]) for 0 <= start <= end:        *)
(* indices are clamped to the length of the string.                        *)
(***************************************************************************)
Substring(s, start, end) == SubSeq(s, Min(start, Len(s)) + 1, Min(end, Len(s)))
SubstringFrom(s, start) == SubSeq(s, Min(start, Len(s)) + 1, Len(s))

Digits == {"0", "1", "2", "3", "4", "5", "6", "7", "8", "9"}
DigitVal(c) ==
    CASE c = "0" -> 0 [] c = "1" -> 1 [] c = "2" -> 2 [] c = "3" -> 3
      [] c = "4" -> 4 [] c = "5" -> 5 [] c = "6" -> 6 [] c = "7" -> 7
      [] c = "8" -> 8 [] c = "9" -> 9

\* The number of leading decimal digits of s.
RECURSIVE DigitsPrefixLen(_)
DigitsPrefixLen(s) ==
    IF s = "" \/ Head(s) \notin Digits THEN 0 ELSE 1 + DigitsPrefixLen(Tail(s))

\* The value of a string of decimal digits (0 for the empty string).
RECURSIVE DigitsValue(_)
DigitsValue(s) ==
    IF s = "" THEN 0
    ELSE DigitsValue(SubSeq(s, 1, Len(s) - 1)) * 10 + DigitVal(SubSeq(s, Len(s), Len(s)))

\* StrWhiteSpaceChar prefix removal, as parseInt/parseFloat/trim do it.
WhiteSpace == {" ", "\t", "\r", "\n"}
RECURSIVE TrimStart(_)
TrimStart(s) == IF s # "" /\ Head(s) \in WhiteSpace THEN TrimStart(Tail(s)) ELSE s
RECURSIVE TrimEnd(_)
TrimEnd(s) ==
    IF s # "" /\ SubSeq(s, Len(s), Len(s)) \in WhiteSpace
    THEN TrimEnd(SubSeq(s, 1, Len(s) - 1)) ELSE s
Trim(s) == TrimEnd(TrimStart(s))

SignOf(s) == IF s # "" /\ Head(s) = "-" THEN -1 ELSE 1
Unsigned(s) == IF s # "" /\ Head(s) \in {"-", "+"} THEN Tail(s) ELSE s

(***************************************************************************)
(* parseInt(s, 10): leading white space, an optional sign, then the        *)
(* longest prefix of decimal digits; NaN when that prefix is empty.        *)
(***************************************************************************)
ParseInt(s) ==
    LET t == TrimStart(s)
        u == Unsigned(t)
        n == DigitsPrefixLen(u)
    IN  IF n = 0 THEN NaN ELSE Num(SignOf(t) * DigitsValue(SubSeq(u, 1, n)))

(***************************************************************************)
(* parseFloat(s): leading white space, an optional sign, digits, an        *)
(* optional "." and digits; NaN when there is no digit at all.  The result *)
(* counts units of 1/Scale; fraction digits past the fourth are dropped.   *)
(* Exponents and "Infinity" are outside the alphabet of the model.         *)
(***************************************************************************)
ParseFloat(s) ==
    LET t == TrimStart(s)
        u == Unsigned(t)
        n == DigitsPrefixLen(u)
        rest == SubstringFrom(u, n)
        hasDot == rest # "" /\ Head(rest) = "."
        f == IF hasDot THEN DigitsPrefixLen(Tail(rest)) ELSE 0
        frac == IF hasDot THEN SubSeq(Tail(rest), 1, Min(f, 4)) ELSE ""
        fracVal == DigitsValue(frac) * 10^(4 - Len(frac))
    IN  IF n = 0 /\ f = 0 THEN NaN
        ELSE Num(SignOf(t) * (DigitsValue(SubSeq(u, 1, n)) * Scale + fracVal))

\* Math.floor of a fixed-point number.
MathFloor(x) == IF IsNum(x) THEN Num(x.num \div Scale) ELSE NaN

(***************************************************************************)
(* Dates.  DaysFromCivil is ECMAScript's MakeDay for a year, a 0-based     *)
(* month in 0..11 and day 1: the day number of the first of that month.    *)
(***************************************************************************)
SecPerDay == 24 * 60 * 60

DaysFromCivil(y, m) ==
    LET yy == IF m + 1 <= 2 THEN y - 1 ELSE y
        era == yy \div 400
        yoe == yy - era * 400
        mp == (m + 10) % 12
        doy == (153 * mp + 2) \div 5
        doe == yoe * 365 + yoe \div 4 - yoe \div 100 + doy
    IN  era * 146097 + doe - 719468

Instant(d, s) == [d |-> d, s |-> s]
IsInstant(t) == "d" \in DOMAIN t

(***************************************************************************)
(* new Date(Date.UTC(year, month, day, hours, minutes, seconds)): NaN      *)
(* (Invalid Date) when any argument is NaN; a year in 0..99 means          *)
(* 1900 + year; out-of-range months, days, hours, minutes and seconds      *)
(* carry over into the next larger unit (MakeDay, MakeTime).               *)
(***************************************************************************)
DateUTC(year, month, day, hours, minutes, seconds) ==
    IF \E a \in {year, month, day, hours, minutes, seconds} : ~IsNum(a) THEN NaN
    ELSE LET yr == IF 0 <= year.num /\ year.num <= 99 THEN 1900 + year.num ELSE year.num
             ym == yr + month.num \div 12
             mn == month.num % 12
             tod == hours.num * 3600 + minutes.num * 60 + seconds.num
             dd == DaysFromCivil(ym, mn) + (day.num - 1) + tod \div SecPerDay
         IN  Instant(dd, tod % SecPerDay)


(***************************************************************************)
(* parseNmeaCoordinate (lines 389-409).  "!coordStr || !direction" is true *)
(* of the empty string; parseInt and parseFloat never throw, so the catch  *)
(* branch is dead and an undecodable substring gives NaN, not null.        *)
(* The result counts units of 1/(60*Scale) degree.                         *)
(***************************************************************************)
parseNmeaCoordinate(coordStr, direction) ==
    IF coordStr = "" \/ direction = "" THEN Null
    ELSE LET w == IF direction = "N" \/ direction = "S" THEN 2 ELSE 3
             degrees == ParseInt(Substring(coordStr, 0, w))
             minutes == ParseFloat(SubstringFrom(coordStr, w))
         IN  IF ~IsNum(degrees) \/ ~IsNum(minutes) THEN NaN
             ELSE LET decimal == degrees.num * 60 * Scale + minutes.num
                  IN  IF direction = "S" \/ direction = "W"
                      THEN Num(-decimal) ELSE Num(decimal)

(***************************************************************************)
(* parseNmeaTime (lines 411-426).  Nothing in the body throws on a string, *)
(* so the result is always a Date, possibly an Invalid Date; never null.   *)
(***************************************************************************)
parseNmeaTime(timeStr, dateStr) ==
    LET hours == ParseInt(Substring(timeStr, 0, 2))
        minutes == ParseInt(Substring(timeStr, 2, 4))
        seconds == ParseFloat(SubstringFrom(timeStr, 4))
        day == ParseInt(Substring(dateStr, 0, 2))
        mm == ParseInt(Substring(dateStr, 2, 4))
        month == IF IsNum(mm) THEN Num(mm.num - 1) ELSE NaN
        yy == ParseInt(Substring(dateStr, 4, 6))
        year == IF IsNum(yy) THEN Num(2000 + yy.num) ELSE NaN
    IN  DateUTC(year, month, day, hours, minutes, MathFloor(seconds))

(***************************************************************************)
(* getDistance (lines 428-441), the haversine distance, in millimetres.    *)
(* The model places every point on one meridian (lon1 = lon2), where the   *)
(* haversine formula reduces to R * |lat2 - lat1| in radians; pi is        *)
(* 355/113.  A NaN operand gives NaN.                                      *)
(***************************************************************************)
R == 6371

getDistance(lat1, lon1, lat2, lon2) ==
    IF \E a \in {lat1, lon1, lat2, lon2} : ~IsNum(a) THEN NaN
    ELSE CASE lon1.num = lon2.num ->
              Num((R * 355 * Abs(lat2.num - lat1.num)) \div (113 * 108))

(***************************************************************************)
(* line.split(','): the fields of a line.                                  *)
(***************************************************************************)
RECURSIVE IndexOfComma(_)
IndexOfComma(s) ==
    IF s = "" THEN 0
    ELSE IF Head(s) = "," THEN 1
    ELSE LET r == IndexOfComma(Tail(s)) IN IF r = 0 THEN 0 ELSE r + 1

RECURSIVE Split(_)
Split(s) ==
    LET c == IndexOfComma(s)
    IN  IF c = 0 THEN <<s>>
        ELSE <<SubSeq(s, 1, c - 1)>> \o Split(SubSeq(s, c + 1, Len(s)))

(***************************************************************************)
(* parseNmeaSentence (lines 453-503).  parts[k] of the code is             *)
(* parts[k + 1] here.  The result is Null or the data object, a record     *)
(* with exactly the properties the code sets.                              *)
(***************************************************************************)
parseRmc(parts) ==
    IF Len(parts) < 10 THEN Null
    ELSE LET status == IF parts[3] = "A" THEN "Valid" ELSE "Invalid"
             time == parseNmeaTime(parts[2], parts[10])
             lat == parseNmeaCoordinate(parts[4], parts[5])
             lon == parseNmeaCoordinate(parts[6], parts[7])
         IN  IF lat = Null \/ lon = Null \/ time = Null THEN Null
             ELSE [status |-> status, time |-> time, lat |-> lat, lon |-> lon]

parseGga(parts) ==
    IF Len(parts) < 10 THEN Null
    ELSE LET alt == ParseFloat(parts[10])
             timeStr == parts[2]
             time == DateUTC(Num(0), Num(0), Num(0),
                             ParseInt(Substring(timeStr, 0, 2)),
                             ParseInt(Substring(timeStr, 2, 4)),
                             MathFloor(ParseFloat(SubstringFrom(timeStr, 4))))
         IN  IF IsNaN(alt) THEN Null
             ELSE [status |-> "Invalid", alt |-> alt, time |-> time]

parseNmeaSentence(line) ==
    LET parts == Split(line)
        sentenceType == SubstringFrom(parts[1], 3)
    IN  IF sentenceType = "RMC" THEN parseRmc(parts)
        ELSE IF sentenceType = "GGA" THEN parseGga(parts)
        ELSE Null

(***************************************************************************)
(* A Map (lines 514-515) is the sequence of its entries in insertion       *)
(* order; set() on a key already present replaces the value in place.      *)
(* Keys are compared by SameValueZero, under which NaN equals NaN.         *)
(***************************************************************************)
MapHas(m, k) == \E n \in 1..Len(m) : m[n].k = k
MapGet(m, k) ==
    IF MapHas(m, k) THEN (m[CHOOSE n \in 1..Len(m) : m[n].k = k]).v ELSE Undefined
\* MapSet as an array push would do it: no replacement of an entry.
MapSetAppend(m, k, v) == Append(m, [k |-> k, v |-> v])
MapSet(m, k, v) ==
    IF MapHas(m, k)
    THEN LET n == CHOOSE q \in 1..Len(m) : m[q].k = k
         IN  SubSeq(m, 1, n - 1) \o <<[k |-> k, v |-> v]>> \o SubSeq(m, n + 1, Len(m))
    ELSE Append(m, [k |-> k, v |-> v])

(***************************************************************************)
(* Math.floor(data.time.getTime() / 1000) (line 523): the whole second of  *)
(* the instant, NaN for an Invalid Date.                                   *)
(***************************************************************************)
TimeKey(time) == IF IsInstant(time) THEN Instant(time.d, time.s) ELSE NaN

\* a - b on two Dates, in seconds: NaN when either is an Invalid Date.
TimeDiff(a, b) ==
    IF IsInstant(a) /\ IsInstant(b)
    THEN Num((a.d - b.d) * SecPerDay + (a.s - b.s)) ELSE NaN

\* a < b on two Dates: false when either is an Invalid Date.
DateLess(a, b) ==
    IsInstant(a) /\ IsInstant(b) /\ (a.d < b.d \/ (a.d = b.d /\ a.s < b.s))

Positive(x) == IsNum(x) /\ x.num > 0

(***************************************************************************)
(* combinedPoints.sort((a, b) => a.time - b.time) (line 551).  A           *)
(* comparator result of NaN counts as 0.  With a consistent comparator the *)
(* sort is the stable ascending one; with an inconsistent one (an Invalid  *)
(* Date next to two different instants) the order is implementation-       *)
(* defined, so every permutation is a possible outcome.                    *)
(***************************************************************************)
CompareLess(a, b) == Positive(TimeDiff(b.time, a.time))

RECURSIVE InsertSorted(_, _)
InsertSorted(sorted, p) ==
    IF sorted = <<>> THEN <<p>>
    ELSE LET last == sorted[Len(sorted)]
         IN  IF CompareLess(p, last)
             THEN Append(InsertSorted(SubSeq(sorted, 1, Len(sorted) - 1), p), last)
             ELSE Append(sorted, p)

RECURSIVE StableSort(_)
StableSort(seq) ==
    IF seq = <<>> THEN <<>>
    ELSE InsertSorted(StableSort(SubSeq(seq, 1, Len(seq) - 1)), seq[Len(seq)])

\* The comparator is consistent when "compares equal" is transitive (the
\* other conditions hold of any difference of numbers or NaN).
CompareEqual(a, b) == ~CompareLess(a, b) /\ ~CompareLess(b, a)

ConsistentComparator(seq) ==
    \A a, b \in 1..Len(seq) :
        (a # b /\ CompareEqual(seq[a], seq[b]))
            => \A c \in 1..Len(seq) :
                   CompareEqual(seq[b], seq[c]) => CompareEqual(seq[a], seq[c])

PermutationsOf(seq) ==
    {[n \in 1..Len(seq) |-> seq[f[n]]] :
        f \in {g \in [1..Len(seq) -> 1..Len(seq)] :
                 \A a, b \in 1..Len(seq) : g[a] = g[b] => a = b}}

SortOutcomes(seq) ==
    IF ConsistentComparator(seq) THEN {StableSort(seq)} ELSE PermutationsOf(seq)

(***************************************************************************)
(* parseJstToUtc (lines 554-558): "YYYY-MM-DD HH:MM:SS" read as UTC+9;     *)
(* null for the empty string and for a string that is not a date-time.     *)
(***************************************************************************)
IsDigits(s) == DigitsPrefixLen(s) = Len(s)

parseJstToUtc(timeStr) ==
    IF timeStr = "" THEN Null
    ELSE IF /\ Len(timeStr) = 19
            /\ Substring(timeStr, 4, 5) = "-" /\ Substring(timeStr, 7, 8) = "-"
            /\ Substring(timeStr, 10, 11) = " "
            /\ Substring(timeStr, 13, 14) = ":" /\ Substring(timeStr, 16, 17) = ":"
            /\ \A r \in {<<0, 4>>, <<5, 7>>, <<8, 10>>, <<11, 13>>, <<14, 16>>, <<17, 19>>} :
                   IsDigits(Substring(timeStr, r[1], r[2]))
            /\ ParseInt(Substring(timeStr, 5, 7)).num \in 1..12
            /\ ParseInt(Substring(timeStr, 8, 10)).num \in 1..31
            /\ ParseInt(Substring(timeStr, 11, 13)).num \in 0..23
            /\ ParseInt(Substring(timeStr, 14, 16)).num \in 0..59
            /\ ParseInt(Substring(timeStr, 17, 19)).num \in 0..59
         THEN DateUTC(ParseInt(Substring(timeStr, 0, 4)),
                      Num(ParseInt(Substring(timeStr, 5, 7)).num - 1),
                      ParseInt(Substring(timeStr, 8, 10)),
                      Num(ParseInt(Substring(timeStr, 11, 13)).num - 9),
                      ParseInt(Substring(timeStr, 14, 16)),
                      ParseInt(Substring(timeStr, 17, 19)))
         ELSE Null

\* SpeedCap with a finite default.
SpeedCapDefault100(filterType) == IF filterType = "10" THEN Num(10) ELSE Num(100)

\* The cap of lines 563-568.
Infinity == [infinity |-> TRUE]
SpeedCap(filterType) ==
    IF filterType = "10" THEN Num(10)
    ELSE IF filterType = "100" THEN Num(100)
    ELSE Infinity

(***************************************************************************)
(* Lines 586-591: timeDiffSec > 0 && distanceKm > 0 &&                     *)
(* (distanceKm / timeDiffSec) * 3600 > maxSpeedKmh, the distance being in  *)
(* millimetres here: mm / 10^6 / dt * 3600 > cap  <=>  9 mm > 2500 cap dt. *)
(***************************************************************************)
\* SpeedExceeds without the factor 3600: kilometres per second against the cap.
SpeedExceedsPerSecond(distance, timeDiffSec, cap) ==
    /\ Positive(timeDiffSec) /\ Positive(distance)
    /\ cap # Infinity
    /\ distance.num > 1000000 * cap.num * timeDiffSec.num

SpeedExceeds(distance, timeDiffSec, cap) ==
    /\ Positive(timeDiffSec) /\ Positive(distance)
    /\ cap # Infinity
    /\ 9 * distance.num > 2500 * cap.num * timeDiffSec.num

(***************************************************************************)
(* Number.prototype.toFixed and Date.prototype.toISOString, as the         *)
(* serializer uses them (lines 610-616).                                   *)
(***************************************************************************)
DigitChar(d) == SubSeq("0123456789", d + 1, d + 1)

RECURSIVE NatToString(_)
NatToString(n) ==
    IF n < 10 THEN DigitChar(n) ELSE NatToString(n \div 10) \o DigitChar(n % 10)

RECURSIVE PadLeft(_, _)
PadLeft(str, width) == IF Len(str) >= width THEN str ELSE PadLeft("0" \o str, width)

\* n / 10^digits as a decimal numeral with that many fraction digits.
FixedNumeral(negative, n, digits) ==
    (IF negative THEN "-" ELSE "")
        \o NatToString(n \div 10^digits) \o "." \o PadLeft(NatToString(n % 10^digits), digits)

\* coordinate.toFixed(6): v/(60*Scale) degrees rounded to a millionth.
CoordToFixed6(x) ==
    IF ~IsNum(x) THEN "NaN"
    ELSE FixedNumeral(x.num < 0, (10 * Abs(x.num) + 3) \div 6, 6)

\* alt.toFixed(2): v/Scale metres rounded to a hundredth.
AltToFixed2(x) ==
    IF ~IsNum(x) THEN "NaN"
    ELSE FixedNumeral(x.num < 0, (Abs(x.num) + 50) \div 100, 2)

\* The civil date <<year, month, day>> of a day number (inverse of MakeDay).
CivilFromDays(d) ==
    LET z == d + 719468
        era == z \div 146097
        doe == z - era * 146097
        yoe == (doe - doe \div 1460 + doe \div 36524 - doe \div 146096) \div 365
        doy == doe - (365 * yoe + yoe \div 4 - yoe \div 100)
        mp == (5 * doy + 2) \div 153
        day == doy - (153 * mp + 2) \div 5 + 1
        month == IF mp < 10 THEN mp + 3 ELSE mp - 9
        year == yoe + era * 400 + (IF month <= 2 THEN 1 ELSE 0)
    IN  <<year, month, day>>

\* time.toISOString() for a year in 0..9999.  On an Invalid Date the code
\* throws a RangeError instead (see Serialize).
toISOString(time) ==
    IF ~IsInstant(time) THEN "RangeError: Invalid time value"
    ELSE LET ymd == CivilFromDays(time.d)
             two(n) == PadLeft(NatToString(n), 2)
         IN  PadLeft(NatToString(ymd[1]), 4) \o "-" \o two(ymd[2]) \o "-" \o two(ymd[3])
                 \o "T" \o two(time.s \div 3600) \o ":" \o two((time.s \div 60) % 60)
                 \o ":" \o two(time.s % 60) \o ".000Z"

(***************************************************************************)
(* convertToGpx (lines 512-625).                                           *)
(***************************************************************************)
VARIABLES
    lines,            \* fileContent.split('\n')
    speedFilterType,  \* the three configuration strings
    startTimeStr,
    endTimeStr,
    pc,               \* "scan" (518-532), "filter" (572-597), "done"
    i,                \* index of the next line to scan
    rmcPoints,        \* Map: time key -> RMC data
    ggaAlts,          \* Map: time key -> altitude
    combinedPoints,   \* the merged, sorted sequence
    startTimeUtc,     \* the locals of lines 560-568, Undefined until set
    endTimeUtc,
    maxSpeedKmh,
    j,                \* index of the next combined point to filter
    filteredPoints,
    lastPoint,        \* the last accepted point, or Null
    outcome           \* what the caller gets: running, a return or a throw

vars == <<lines, speedFilterType, startTimeStr, endTimeStr, pc, i, rmcPoints,
          ggaAlts, combinedPoints, startTimeUtc, endTimeUtc, maxSpeedKmh, j,
          filteredPoints, lastPoint, outcome>>

\* The two errors convertToGpx throws itself (lines 547 and 600), and the
\* RangeError of toISOString on an Invalid Date (line 610).
NoValidPointsError == [kind |-> "throw", name |-> "Error", at |-> 547]
NoPointsLeftError == [kind |-> "throw", name |-> "Error", at |-> 600]
InvalidTimeError == [kind |-> "throw", name |-> "RangeError", at |-> 610]
Running == [kind |-> "running"]
Returned(gpx) == [kind |-> "return", gpx |-> gpx]

\* StoreRmc without the test of the status.
StoreRmcAnyStatus(map, data) ==
    IF data # Null /\ "lat" \in DOMAIN data
    THEN MapSet(map, TimeKey(data.time), data) ELSE map

\* Lines 525-528: only an RMC record of status 'Valid' is stored.
StoreRmc(map, data) ==
    IF data # Null /\ "lat" \in DOMAIN data /\ data.status = "Valid"
    THEN MapSet(map, TimeKey(data.time), data) ELSE map

\* Lines 529-531.
StoreGga(map, data) ==
    IF data # Null /\ "lat" \notin DOMAIN data /\ "alt" \in DOMAIN data
    THEN MapSet(map, TimeKey(data.time), data.alt) ELSE map

\* Lines 535-544: one combined point per entry of rmcPoints, in its order.
RECURSIVE CombinePoints(_, _)
CombinePoints(rmc, gga) ==
    IF rmc = <<>> THEN <<>>
    ELSE LET e == rmc[Len(rmc)]
         IN  Append(CombinePoints(SubSeq(rmc, 1, Len(rmc) - 1), gga),
                    [lat |-> e.v.lat, lon |-> e.v.lon, time |-> e.v.time,
                     alt |-> MapGet(gga, e.k)])

\* DroppedByWindow with exclusive bounds: a point at a bound is dropped too.
DroppedByWindowExclusive(point, startUtc, endUtc) ==
    \/ startUtc # Null /\ ~DateLess(startUtc, point.time)
    \/ endUtc # Null /\ ~DateLess(point.time, endUtc)

\* Lines 574-575: the two "continue"s of the time window.
DroppedByWindow(point, startUtc, endUtc) ==
    \/ startUtc # Null /\ DateLess(point.time, startUtc)
    \/ endUtc # Null /\ DateLess(endUtc, point.time)

\* Lines 578-593: the "continue" of the speed filter.
RejectedBySpeed(last, point, cap) ==
    /\ last # Null
    /\ SpeedExceeds(getDistance(last.lat, last.lon, point.lat, point.lon),
                    TimeDiff(point.time, last.time), cap)

Accepted(last, point, cap, startUtc, endUtc) ==
    /\ ~DroppedByWindow(point, startUtc, endUtc)
    /\ ~RejectedBySpeed(last, point, cap)

\* NextLastPoint advancing on a rejected point too.
NextLastPointAlways(last, point, accepted) == point

\* NextLastPoint taking the first point of the loop as the anchor even when
\* the window dropped it.
NextLastPointSeeded(last, point, accepted) ==
    IF accepted \/ last = Null THEN point ELSE last

\* Lines 595-596, reached only when no "continue" was taken.
NextLastPoint(last, point, accepted) == IF accepted THEN point ELSE last
NextFilteredPoints(filtered, point, accepted) ==
    IF accepted THEN Append(filtered, point) ELSE filtered

\* Lines 609-618: one <trkpt> per point; <ele> only when alt is defined.
TrackPoint(p) ==
    LET base == [lat |-> CoordToFixed6(p.lat), lon |-> CoordToFixed6(p.lon),
                 time |-> toISOString(p.time)]
    IN  IF p.alt # Undefined
        THEN [lat |-> base.lat, lon |-> base.lon, ele |-> AltToFixed2(p.alt),
              time |-> base.time]
        ELSE base

Serialize(points) ==
    IF \E n \in 1..Len(points) : ~IsInstant(points[n].time)
    THEN InvalidTimeError
    ELSE Returned([n \in 1..Len(points) |-> TrackPoint(points[n])])

(***************************************************************************)
(* The inputs of the model.                                                *)
(***************************************************************************)
MaxLines == 3

RmcT0 == "$GPRMC,120000.00,A,3530.0000,N,13930.0000,E,0.0,0.0,010125,,*00"
RmcT0Late == "$GPRMC,120000.50,A,3530.0300,N,13930.0000,E,0.0,0.0,010125,,*00"
RmcT1 == "$GPRMC,120001.00,A,3530.0300,N,13930.0000,E,0.0,0.0,010125,,*00"
RmcT2 == "$GPRMC,120002.00,A,3530.0002,N,13930.0000,E,0.0,0.0,010125,,*00\r"
RmcVoid == "$GPRMC,120001.00,V,3530.0500,N,13930.0000,E,0.0,0.0,010125,,*00"
RmcBadTime == "$GPRMC,xx0000.00,A,3530.0000,N,13930.0000,E,0.0,0.0,010125,,*00"
RmcBadLat == "$GPRMC,120002.00,A,xx30.0000,N,13930.0000,E,0.0,0.0,010125,,*00"
RmcNoLat == "$GPRMC,120001.00,A,,N,13930.0000,E,0.0,0.0,010125,,*00"
RmcShort == "$GPRMC,120001.00,A,3530.0000,N"
GgaT0 == "$GPGGA,120000.00,3530.0000,N,13930.0000,E,1,08,1.0,100.0,M,35.0,M,,*00"
Gsv == "$GPGSV,3,1,11,03,03,111,00,04,15,270,00,06,01,010,00,13,06,292,00*74"

CandidateLines ==
    {"", RmcT0, RmcT0Late, RmcT1, RmcT2, RmcVoid, RmcBadTime, RmcBadLat,
     RmcNoLat, RmcShort, GgaT0, Gsv}

\* Time and date fields of an RMC sentence: in range, one field out of range
\* (hour 24 and 25, minute 60, second 60; day 0 and 32, 30 and 29 February,
\* month 0 and 13) and a non-numeric substring in each position.
TimeFields ==
    {"120000.00", "235959.00", "240000.00", "250000.00", "126000.00",
     "120060.00", "xx0000.00", "12xx00.00", "1200xx"}
DateFields ==
    {"010125", "311225", "290224", "000125", "320125", "300225", "290225",
     "010025", "011325", "xx0125", "01xx25", "0101xx"}

RmcOf(timeStr, dateStr) ==
    "$GPRMC," \o timeStr \o ",A,3530.0000,N,13930.0000,E,0.0,0.0," \o dateStr \o ",,*00"

TimeProbeLines == {RmcOf(t, d) : t \in TimeFields, d \in DateFields}

\* line.trim() and parseNmeaSentence (line 519), tabulated over the lines of
\* the model.
ParsedLine ==
    [l \in CandidateLines \cup TimeProbeLines |-> parseNmeaSentence(Trim(l))]

Files == UNION {[1..n -> CandidateLines] : n \in 1..MaxLines}

\* 12:00:01 UTC of 2025-01-01, and a bound after every point of the model.
JstT1 == "2025-01-01 21:00:01"
JstNextDay == "2025-01-02 09:00:00"

Configs ==
    {<<"none", "", "">>, <<"10", "", "">>, <<"100", "", "">>,
     <<"none", JstT1, JstT1>>, <<"10", JstT1, "">>, <<"none", JstNextDay, "">>,
     <<"100", "not a date", JstT1>>}

Init ==
    /\ lines \in Files
    /\ \E c \in Configs :
          speedFilterType = c[1] /\ startTimeStr = c[2] /\ endTimeStr = c[3]
    /\ pc = "scan"
    /\ i = 1
    /\ rmcPoints = <<>>
    /\ ggaAlts = <<>>
    /\ combinedPoints = <<>>
    /\ startTimeUtc = Undefined
    /\ endTimeUtc = Undefined
    /\ maxSpeedKmh = Undefined
    /\ j = 1
    /\ filteredPoints = <<>>
    /\ lastPoint = Null
    /\ outcome = Running

config == <<lines, speedFilterType, startTimeStr, endTimeStr>>
locals == <<startTimeUtc, endTimeUtc, maxSpeedKmh>>

\* One iteration of the loop of lines 518-532.
ScanLine ==
    /\ pc = "scan" /\ i <= Len(lines)
    /\ LET data == ParsedLine[lines[i]]
       IN  /\ rmcPoints' = StoreRmc(rmcPoints, data)
           /\ ggaAlts' = StoreGga(ggaAlts, data)
    /\ i' = i + 1
    /\ UNCHANGED <<config, pc, combinedPoints, locals, j, filteredPoints, lastPoint,
                   outcome>>

\* Lines 535-568: join, the "no valid points" throw, the sort, the locals.
Merge ==
    /\ pc = "scan" /\ i > Len(lines)
    /\ LET combined == CombinePoints(rmcPoints, ggaAlts)
       IN  IF Len(combined) = 0
           THEN /\ outcome' = NoValidPointsError
                /\ pc' = "done"
                /\ UNCHANGED <<combinedPoints, locals>>
           ELSE /\ combinedPoints' \in SortOutcomes(combined)
                /\ startTimeUtc' = parseJstToUtc(startTimeStr)
                /\ endTimeUtc' = parseJstToUtc(endTimeStr)
                /\ maxSpeedKmh' = SpeedCap(speedFilterType)
                /\ pc' = "filter"
                /\ UNCHANGED outcome
    /\ UNCHANGED <<config, i, rmcPoints, ggaAlts, j, filteredPoints, lastPoint>>

\* One iteration of the loop of lines 572-597.
FilterPoint ==
    /\ pc = "filter" /\ j <= Len(combinedPoints)
    /\ LET currentPoint == combinedPoints[j]
           accepted == Accepted(lastPoint, currentPoint, maxSpeedKmh,
                                startTimeUtc, endTimeUtc)
       IN  /\ filteredPoints' = NextFilteredPoints(filteredPoints, currentPoint, accepted)
           /\ lastPoint' = NextLastPoint(lastPoint, currentPoint, accepted)
    /\ j' = j + 1
    /\ UNCHANGED <<config, pc, i, rmcPoints, ggaAlts, combinedPoints, locals, outcome>>

\* Lines 599-624: the "no points left" throw, or the GPX document.
Finish ==
    /\ pc = "filter" /\ j > Len(combinedPoints)
    /\ outcome' = IF Len(filteredPoints) = 0 THEN NoPointsLeftError
                  ELSE Serialize(filteredPoints)
    /\ pc' = "done"
    /\ UNCHANGED <<config, i, rmcPoints, ggaAlts, combinedPoints, locals, j,
                   filteredPoints, lastPoint>>

Next == ScanLine \/ Merge \/ FilterPoint \/ Finish

Spec == Init /\ [][Next]_vars

\* The same conversion started on a file of one RMC sentence drawn from the
\* time and date fields above, with no window and no cap.
TimeInit ==
    /\ lines \in {<<l>> : l \in TimeProbeLines}
    /\ speedFilterType = "none" /\ startTimeStr = "" /\ endTimeStr = ""
    /\ pc = "scan"
    /\ i = 1
    /\ rmcPoints = <<>>
    /\ ggaAlts = <<>>
    /\ combinedPoints = <<>>
    /\ startTimeUtc = Undefined
    /\ endTimeUtc = Undefined
    /\ maxSpeedKmh = Undefined
    /\ j = 1
    /\ filteredPoints = <<>>
    /\ lastPoint = Null
    /\ outcome = Running

TimeSpec == TimeInit /\ [][Next]_vars

(***************************************************************************)
(* Vocabulary of the properties, read off the raw fields of a line.        *)
(***************************************************************************)
Fields(l) == Split(Trim(l))
SentenceType(l) == SubstringFrom(Fields(l)[1], 3)

NumericTime(t) ==
    /\ IsNum(ParseInt(Substring(t, 0, 2))) /\ IsNum(ParseInt(Substring(t, 2, 4)))
    /\ IsNum(ParseFloat(SubstringFrom(t, 4)))
NumericDate(d) ==
    /\ IsNum(ParseInt(Substring(d, 0, 2))) /\ IsNum(ParseInt(Substring(d, 2, 4)))
    /\ IsNum(ParseInt(Substring(d, 4, 6)))
NumericCoord(c, width) ==
    IsNum(ParseInt(Substring(c, 0, width))) /\ IsNum(ParseFloat(SubstringFrom(c, width)))

\* RMC lines of at least 10 fields with an undecodable time, date, latitude
\* or longitude field.
UndecodableRmcLines ==
    {l \in CandidateLines :
        /\ SentenceType(l) = "RMC" /\ Len(Fields(l)) >= 10
        /\ \/ ~NumericTime(Fields(l)[2]) \/ ~NumericDate(Fields(l)[10])
           \/ ~NumericCoord(Fields(l)[4], 2) \/ ~NumericCoord(Fields(l)[6], 3)}

\* RMC lines whose status field is not 'A'.
NotActiveRmcLines ==
    {l \in CandidateLines :
        SentenceType(l) = "RMC" /\ Len(Fields(l)) >= 3 /\ Fields(l)[3] # "A"}

\* Lines of a wrong sentence type, of too few fields or with undecodable fields.
MalformedLines ==
    {l \in CandidateLines :
        \/ SentenceType(l) \notin {"RMC", "GGA"}
        \/ Len(Fields(l)) < 10
        \/ l \in UndecodableRmcLines
        \/ SentenceType(l) = "GGA" /\ ~IsNum(ParseFloat(Fields(l)[10]))}

\* Line m of the file is an RMC line that the scan stores as a fix.
ValidRmcAt(m) ==
    LET d == ParsedLine[lines[m]]
    IN  d # Null /\ "lat" \in DOMAIN d /\ d.status = "Valid"
KeyAt(m) == TimeKey(ParsedLine[lines[m]].time)

\* The fix map the scan builds from a sequence of lines.
RECURSIVE RmcMapOf(_)
RmcMapOf(ls) ==
    IF ls = <<>> THEN <<>>
    ELSE StoreRmc(RmcMapOf(SubSeq(ls, 1, Len(ls) - 1)), ParsedLine[ls[Len(ls)]])

RECURSIVE GgaMapOf(_)
GgaMapOf(ls) ==
    IF ls = <<>> THEN <<>>
    ELSE StoreGga(GgaMapOf(SubSeq(ls, 1, Len(ls) - 1)), ParsedLine[ls[Len(ls)]])

InSeq(x, seq) == \E n \in 1..Len(seq) : seq[n] = x
Merged == pc # "scan"

EpochSeconds(t) == t.d * SecPerDay + t.s
BeforeStart(p) ==
    startTimeUtc # Null /\ IsInstant(p.time)
        /\ EpochSeconds(p.time) < EpochSeconds(startTimeUtc)
AfterEnd(p) ==
    endTimeUtc # Null /\ IsInstant(p.time)
        /\ EpochSeconds(p.time) > EpochSeconds(endTimeUtc)
InsideWindow(p) == ~BeforeStart(p) /\ ~AfterEnd(p)

(***************************************************************************)
(* C1.  A valid RMC line and a GGA line with a numeric altitude in the     *)
(* same whole UTC second give a combined point that carries an altitude.   *)
(* The code does not do this: the GGA key is built with Date.UTC(0, 0, 0,  *)
(* ...), an instant of 1899-12-31, and never equals the key of an RMC.     *)
(***************************************************************************)
C1_AltitudeJoined ==
    Merged =>
        \A n \in 1..Len(combinedPoints) : \A m \in 1..Len(lines) :
            LET g == ParsedLine[lines[m]]
                p == combinedPoints[n]
            IN  ("alt" \in DOMAIN g /\ IsInstant(g.time) /\ IsInstant(p.time)
                    /\ g.time.s = p.time.s)
                => p.alt # Undefined

(***************************************************************************)
(* C2.  convertToGpx ends by returning a document or by throwing one of    *)
(* its two errors; no other failure reaches the caller.  The code lets the *)
(* RangeError of toISOString on an Invalid Date through.                   *)
(***************************************************************************)
C2_OnlyTheTwoErrors ==
    /\ pc = "done" => outcome.kind \in {"return", "throw"}
    /\ outcome.kind = "throw" => outcome \in {NoValidPointsError, NoPointsLeftError}

(***************************************************************************)
(* C3.  An RMC line with an undecodable latitude, longitude, time or date  *)
(* yields no record and adds nothing to the fix map: the map is the one    *)
(* the scan builds from the other lines.  The code keeps such a line when  *)
(* the decode gives NaN or an Invalid Date rather than null.               *)
(***************************************************************************)
Decodable(l) == l \notin UndecodableRmcLines

C3_UndecodableRmcDiscarded ==
    /\ \A m \in 1..Len(lines) :
          lines[m] \in UndecodableRmcLines => ParsedLine[lines[m]] = Null
    /\ rmcPoints = RmcMapOf(SelectSeq(SubSeq(lines, 1, i - 1), Decodable))

(***************************************************************************)
(* C4.  A file of malformed lines only ends in the "no valid points"       *)
(* error; a file with combined points that all lie outside the time window *)
(* ends in the "no points left" error.                                     *)
(***************************************************************************)
C4_ErrorKinds ==
    pc = "done" =>
        /\ (\A m \in 1..Len(lines) : lines[m] \in MalformedLines)
              => outcome = NoValidPointsError
        /\ (Len(combinedPoints) > 0
              /\ \A n \in 1..Len(combinedPoints) : ~InsideWindow(combinedPoints[n]))
              => outcome = NoPointsLeftError

(***************************************************************************)
(* C5.  Scanning an RMC line whose status is not 'A' changes neither map:  *)
(* it adds no fix and leaves every stored fix as it was.                   *)
(***************************************************************************)
C5_VoidRmcContributesNothing ==
    [][(pc = "scan" /\ i <= Len(lines) /\ lines[i] \in NotActiveRmcLines)
          => (rmcPoints' = rmcPoints /\ ggaAlts' = ggaAlts)]_vars

\* A well-formed RMC of status V has been scanned after a valid fix of the
\* same second, which is still stored.
C5_Witness ==
    \E m \in 1..(i - 1) : \E k \in 1..(m - 1) :
        /\ lines[m] \in NotActiveRmcLines /\ ParsedLine[lines[m]] # Null
        /\ ValidRmcAt(k) /\ KeyAt(k) = KeyAt(m)
        /\ MapGet(rmcPoints, KeyAt(k)) = ParsedLine[lines[k]]

(***************************************************************************)
(* C6.  After the merge there is exactly one combined point per time key   *)
(* of a stored RMC line, with the latitude and longitude of the last such  *)
(* line of that key in file order, and no other point; a valid RMC line    *)
(* repeated right after itself changes nothing.                            *)
(***************************************************************************)
LastValidOfKey(k) ==
    CHOOSE q \in 1..Len(lines) :
        /\ ValidRmcAt(q) /\ KeyAt(q) = k
        /\ \A r \in (q + 1)..Len(lines) : ~(ValidRmcAt(r) /\ KeyAt(r) = k)

RECURSIVE WithoutRepeats(_)
WithoutRepeats(ls) ==
    IF Len(ls) <= 1 THEN ls
    ELSE LET front == WithoutRepeats(SubSeq(ls, 1, Len(ls) - 1))
             l == ls[Len(ls)]
         IN  IF l = ls[Len(ls) - 1] /\ ParsedLine[l] # Null
                  /\ "lat" \in DOMAIN ParsedLine[l] /\ ParsedLine[l].status = "Valid"
             THEN front ELSE Append(front, l)

C6_LastWriteWins ==
    Merged =>
        /\ \A m \in 1..Len(lines) :
              ValidRmcAt(m) =>
                  LET at == {n \in 1..Len(combinedPoints) :
                                TimeKey(combinedPoints[n].time) = KeyAt(m)}
                      last == ParsedLine[lines[LastValidOfKey(KeyAt(m))]]
                  IN  /\ Cardinality(at) = 1
                      /\ \A n \in at : /\ combinedPoints[n].lat = last.lat
                                       /\ combinedPoints[n].lon = last.lon
        /\ \A n \in 1..Len(combinedPoints) :
              \E m \in 1..Len(lines) :
                  ValidRmcAt(m) /\ KeyAt(m) = TimeKey(combinedPoints[n].time)
        /\ combinedPoints \in
              SortOutcomes(CombinePoints(RmcMapOf(WithoutRepeats(lines)),
                                         GgaMapOf(WithoutRepeats(lines))))

\* Two valid RMC lines of one second with different latitudes were merged,
\* and so was a valid RMC line repeated right after itself.
C6_Witness ==
    /\ pc = "filter"
    /\ \E m, q \in 1..Len(lines) :
          /\ m < q /\ ValidRmcAt(m) /\ ValidRmcAt(q) /\ KeyAt(m) = KeyAt(q)
          /\ ParsedLine[lines[m]].lat # ParsedLine[lines[q]].lat
    /\ WithoutRepeats(lines) # lines

(***************************************************************************)
(* C7.  The time window keeps a point exactly when it is neither strictly  *)
(* before a set start nor strictly after a set end: a filtered point is    *)
(* never outside the window, and a point inside it (its time may equal a   *)
(* bound) is dropped by the window under no configuration, so that with    *)
(* the unlimited cap it is in the result.                                  *)
(***************************************************************************)
C7_WindowInclusive ==
    pc = "filter" \/ (pc = "done" /\ Len(combinedPoints) > 0) =>
        \A n \in 1..(j - 1) :
            LET p == combinedPoints[n]
            IN  /\ InSeq(p, filteredPoints) => InsideWindow(p)
                /\ (InsideWindow(p) /\ maxSpeedKmh = Infinity)
                      => InSeq(p, filteredPoints)

\* Both bounds are set; a point whose time equals both was kept, one before
\* the start and one after the end were dropped.
C7_Witness ==
    /\ pc = "done" /\ startTimeUtc # Null /\ endTimeUtc # Null
    /\ startTimeUtc # Undefined
    /\ \E n \in 1..Len(filteredPoints) :
          /\ filteredPoints[n].time = startTimeUtc
          /\ filteredPoints[n].time = endTimeUtc
    /\ \E n \in 1..Len(combinedPoints) : BeforeStart(combinedPoints[n])
    /\ \E n \in 1..Len(combinedPoints) : AfterEnd(combinedPoints[n])

(***************************************************************************)
(* C8.  The carried last accepted point is always the most recently        *)
(* accepted point, never a rejected one; for three points P0, P1, P2       *)
(* inside the window with P0 -> P1 over the cap and P0 -> P2 within it,    *)
(* the result is P0, P2.                                                   *)
(***************************************************************************)
C8_AnchorIsLastAccepted ==
    /\ lastPoint = IF filteredPoints = <<>> THEN Null
                   ELSE filteredPoints[Len(filteredPoints)]
    /\ (/\ pc = "done" /\ Len(combinedPoints) = 3
        /\ \A n \in 1..3 : InsideWindow(combinedPoints[n])
        /\ RejectedBySpeed(combinedPoints[1], combinedPoints[2], maxSpeedKmh)
        /\ ~RejectedBySpeed(combinedPoints[1], combinedPoints[3], maxSpeedKmh))
       => filteredPoints = <<combinedPoints[1], combinedPoints[3]>>

\* P1 was rejected and P2, at a positive distance from P0, accepted, though
\* P1 -> P2 is over the cap.
C8_Witness ==
    /\ pc = "done" /\ Len(combinedPoints) = 3
    /\ filteredPoints = <<combinedPoints[1], combinedPoints[3]>>
    /\ RejectedBySpeed(combinedPoints[1], combinedPoints[2], maxSpeedKmh)
    /\ RejectedBySpeed(combinedPoints[2], combinedPoints[3], maxSpeedKmh)
    /\ Positive(getDistance(combinedPoints[1].lat, combinedPoints[1].lon,
                            combinedPoints[3].lat, combinedPoints[3].lon))

(***************************************************************************)
(* C9.  The merged sequence handed to the filter is strictly ascending by  *)
(* time.  The code breaks this when a fix with an Invalid Date (C3) is in  *)
(* the sequence.                                                           *)
(***************************************************************************)
C9_StrictlyAscending ==
    Merged =>
        \A a, b \in 1..Len(combinedPoints) :
            a < b => DateLess(combinedPoints[a].time, combinedPoints[b].time)

(***************************************************************************)
(* C10.  With the speed filter "none" the result is exactly the sequence   *)
(* of the points that survive the time window, in their order.             *)
(***************************************************************************)
SurvivesWindow(p) == ~DroppedByWindow(p, startTimeUtc, endTimeUtc)

C10_NoCapKeepsAll ==
    (Merged /\ speedFilterType = "none") =>
        filteredPoints = SelectSeq(SubSeq(combinedPoints, 1, j - 1), SurvivesWindow)

\* Two consecutive points of the result are more than 100 km/h apart.
C10_Witness ==
    /\ pc = "done" /\ speedFilterType = "none"
    /\ \E n \in 1..(Len(filteredPoints) - 1) :
          RejectedBySpeed(filteredPoints[n], filteredPoints[n + 1], Num(100))


(***************************************************************************)
(* C11.  parseNmeaTime gives null, and so the sentence no record, for      *)
(* every time or date field with a non-numeric substring or a field out of *)
(* range (hour over 23, minute or second over 59, day 0 or past the end of *)
(* the month, month 0 or over 12).  The code returns an Invalid Date for   *)
(* the former and lets Date.UTC carry the latter over into another         *)
(* instant.                                                                *)
(***************************************************************************)
TwoDigits(s) == Len(s) = 2 /\ IsDigits(s)
FieldValue(s) == DigitsValue(s)

DaysInMonth(year, month) ==
    IF month = 2
    THEN IF year % 4 = 0 /\ (year % 100 # 0 \/ year % 400 = 0) THEN 29 ELSE 28
    ELSE IF month \in {4, 6, 9, 11} THEN 30 ELSE 31

InRangeTime(t) ==
    /\ TwoDigits(Substring(t, 0, 2)) /\ FieldValue(Substring(t, 0, 2)) <= 23
    /\ TwoDigits(Substring(t, 2, 4)) /\ FieldValue(Substring(t, 2, 4)) <= 59
    /\ TwoDigits(Substring(t, 4, 6)) /\ FieldValue(Substring(t, 4, 6)) <= 59
    /\ \/ Len(t) = 6
       \/ Substring(t, 6, 7) = "." /\ IsDigits(SubstringFrom(t, 7))

InRangeDate(d) ==
    /\ Len(d) = 6
    /\ TwoDigits(Substring(d, 0, 2)) /\ TwoDigits(Substring(d, 2, 4))
    /\ TwoDigits(Substring(d, 4, 6))
    /\ FieldValue(Substring(d, 2, 4)) \in 1..12
    /\ FieldValue(Substring(d, 0, 2)) \in
          1..DaysInMonth(2000 + FieldValue(Substring(d, 4, 6)),
                         FieldValue(Substring(d, 2, 4)))

\* Line m is an active RMC sentence of full length whose time or date field
\* is non-numeric or out of range.
BadTimeRmcAt(m) ==
    LET f == Fields(lines[m])
    IN  /\ SentenceType(lines[m]) = "RMC" /\ Len(f) >= 10 /\ f[3] = "A"
        /\ ~(InRangeTime(f[2]) /\ InRangeDate(f[10]))

C11_BadTimeIsNoValue ==
    \A m \in 1..(i - 1) :
        BadTimeRmcAt(m) =>
            /\ parseNmeaTime(Fields(lines[m])[2], Fields(lines[m])[10]) = Null
            /\ ParsedLine[lines[m]] = Null

\* The part of C11 about carry-over alone: a numeric but out-of-range field
\* never gives an instant.
C11_NoRollOver ==
    \A m \in 1..(i - 1) :
        (BadTimeRmcAt(m) /\ NumericTime(Fields(lines[m])[2])
            /\ NumericDate(Fields(lines[m])[10]))
        => ~IsInstant(ParsedLine[lines[m]].time)

\* What the code does instead, for every sentence of TimeSpec: an Invalid
\* Date exactly for a non-numeric field, an instant otherwise.
C11_CodeBehaviour ==
    \A m \in 1..(i - 1) :
        LET f == Fields(lines[m])
            d == ParsedLine[lines[m]]
        IN  (SentenceType(lines[m]) = "RMC" /\ Len(f) >= 10 /\ f[4] # "" /\ f[6] # "")
            => /\ d # Null
               /\ IsInstant(d.time) <=> (NumericTime(f[2]) /\ NumericDate(f[10]))
               /\ (InRangeTime(f[2]) /\ InRangeDate(f[10])) =>
                     /\ IsInstant(d.time)
                     /\ d.time.s = FieldValue(Substring(f[2], 0, 2)) * 3600
                                    + FieldValue(Substring(f[2], 2, 4)) * 60
                                    + FieldValue(Substring(f[2], 4, 6))

ElapsedSeconds(p, q) == EpochSeconds(q.time) - EpochSeconds(p.time)
DistanceMm(p, q) == getDistance(p.lat, p.lon, q.lat, q.lon)

WithinCap(p, q) ==
    (/\ IsInstant(p.time) /\ IsInstant(q.time) /\ ElapsedSeconds(p, q) > 0
     /\ IsNum(DistanceMm(p, q)) /\ DistanceMm(p, q).num > 0
     /\ maxSpeedKmh # Infinity)
    => 36 * DistanceMm(p, q).num <= 10000 * maxSpeedKmh.num * ElapsedSeconds(p, q)

C13_AdjacentPairsWithinCap ==
    Merged =>
        \A n \in 1..(Len(filteredPoints) - 1) :
            WithinCap(filteredPoints[n], filteredPoints[n + 1])

\* Under a finite cap the result has two consecutive points, moving and
\* apart in time, that are not consecutive in the merged sequence: the cap
\* rejected a point between them.
C13_Witness ==
    /\ pc = "done" /\ speedFilterType \in {"10", "100"}
    /\ \E n \in 1..(Len(filteredPoints) - 1) :
          /\ IsInstant(filteredPoints[n].time) /\ IsInstant(filteredPoints[n + 1].time)
          /\ ElapsedSeconds(filteredPoints[n], filteredPoints[n + 1]) > 0
          /\ Positive(DistanceMm(filteredPoints[n], filteredPoints[n + 1]))
          /\ \E a, b, c \in 1..Len(combinedPoints) :
                /\ a < b /\ b < c
                /\ combinedPoints[a] = filteredPoints[n]
                /\ combinedPoints[c] = filteredPoints[n + 1]
                /\ InsideWindow(combinedPoints[b])
                /\ ~InSeq(combinedPoints[b], filteredPoints)
====
